---- MODULE Spec2Model ----
(***************************************************************************)
(* A model of umash.c: the modular arithmetic mod 2^64 - 8, the PH block   *)
(* compressor, the three size tiered hash paths, the finaliser, the        *)
(* parameter preparation and the two public entry points.                  *)
(*                                                                         *)
(* A uint64_t is a sequence of 8 bytes, least significant first (the       *)
(* little-endian layout memcpy sees on x86, which the source requires);    *)
(* a uint32_t is 4 bytes, an __m128i / __uint128_t is 16 bytes.  All       *)
(* arithmetic is exact at the source's widths.                             *)
(***************************************************************************)
EXTENDS Integers, Sequences, FiniteSets, TLC

Byte == 0..255

----------------------------------------------------------------------------
(* Machine arithmetic on little-endian byte sequences.                     *)

\* A function on 1..n as an explicit tuple: the same value, computed once.
Bytes(f) == f \o <<>>

\* The u64 / u128 value of a small non-negative integer literal.
Lit(v, len) ==
    Bytes([i \in 1..len |->
        IF i = 1 THEN v % 256
        ELSE IF i = 2 THEN (v \div 256) % 256
        ELSE IF i = 3 THEN (v \div 65536) % 256
        ELSE IF i = 4 THEN v \div 16777216
        ELSE 0])

U64(v) == Lit(v, 8)

\* A byte sequence with every byte the same.
Fill(b, len) == Bytes([i \in 1..len |-> b])

RECURSIVE BitXor(_, _, _)
BitXor(a, b, k) ==
    IF k = 0 THEN 0
    ELSE ((a + b) % 2) + 2 * BitXor(a \div 2, b \div 2, k - 1)

\* a ^ b on 4-bit values, tabulated once.
XorNib ==
    Bytes([a \in 1..16 |-> Bytes([b \in 1..16 |-> BitXor(a - 1, b - 1, 4)])])

\* a ^ b on bytes, tabulated once from the two halves.
XorTab ==
    Bytes([a \in 1..256 |-> Bytes([b \in 1..256 |->
        16 * XorNib[((a - 1) \div 16) + 1][((b - 1) \div 16) + 1]
        + XorNib[((a - 1) % 16) + 1][((b - 1) % 16) + 1]])])

BXor(a, b) == XorTab[a + 1][b + 1]

\* x ^ y on equally long words.
Xor(x, y) == Bytes([i \in 1..Len(x) |-> BXor(x[i], y[i])])

RECURSIVE Carry(_, _, _)
Carry(x, y, i) ==
    IF i = 0 THEN 0 ELSE (x[i] + y[i] + Carry(x, y, i - 1)) \div 256

\* x + y truncated to the width of x (unsigned wrap-around).
Add(x, y) ==
    Bytes([i \in 1..Len(x) |-> (x[i] + y[i] + Carry(x, y, i - 1)) % 256])

\* __builtin_uaddll_overflow(x, y, &sum): the wrapped sum and the carry out.
uaddll_overflow(x, y) ==
    [sum |-> Add(x, y), overflow |-> Carry(x, y, Len(x)) = 1]

\* x < y, unsigned, on equally long words.
RECURSIVE LtFrom(_, _, _)
LtFrom(x, y, i) ==
    IF i = 0 THEN FALSE
    ELSE IF x[i] # y[i] THEN x[i] < y[i]
    ELSE LtFrom(x, y, i - 1)

Lt(x, y) == LtFrom(x, y, Len(x))

\* The column sums and carries of the schoolbook product of two words.
RECURSIVE Col(_, _, _, _)
Col(x, y, k, i) ==
    IF i = 0 THEN 0
    ELSE (IF k + 1 - i >= 1 /\ k + 1 - i <= Len(y) THEN x[i] * y[k + 1 - i] ELSE 0)
         + Col(x, y, k, i - 1)

RECURSIVE MulDigits(_, _, _, _, _)
MulDigits(x, y, k, carry, acc) ==
    IF k > Len(x) + Len(y) THEN acc
    ELSE LET t == Col(x, y, k, Len(x)) + carry
         IN  MulDigits(x, y, k + 1, t \div 256, Append(acc, t % 256))

\* The full product of two words: Len(x) + Len(y) bytes (64 x 64 -> 128).
MulWide(x, y) == MulDigits(x, y, 1, 0, <<>>)

\* x * y on uint64_t: the low 64 bits of the product.
Mul(x, y) == SubSeq(MulWide(x, y), 1, Len(x))

\* x >> k (logical), k < 8 * Len(x).
Shr(x, k) ==
    LET q == k \div 8
        r == k % 8
        At(i) == IF i <= Len(x) THEN x[i] ELSE 0
    IN  Bytes([i \in 1..Len(x) |->
            (At(i + q) \div (2 ^ r)) + (At(i + q + 1) % (2 ^ r)) * (2 ^ (8 - r))])

\* (uint64_t)wide and (uint64_t)(wide >> 64) of a 128-bit value.
Lo64(w) == SubSeq(w, 1, 8)
Hi64(w) == SubSeq(w, 9, 16)

\* _mm_cvtsi64_si128(v): v in the low half of a 128-bit lane, zero above.
cvtsi64_si128(v) == v \o Fill(0, 8)

RECURSIVE ClByte(_, _)
ClByte(a, b) ==
    IF a = 0 THEN 0
    ELSE LET rest == 2 * ClByte(a \div 2, b)
             term == (a % 2) * b
         IN  (rest \div 256) * 256 + BXor(rest % 256, term)

\* The carryless (GF(2)[x]) product of two bytes, tabulated once.
ClTab ==
    Bytes([a \in 1..256 |-> Bytes([b \in 1..256 |-> ClByte(a - 1, b - 1)])])

BClmul(a, b) == ClTab[a + 1][b + 1]

RECURSIVE ClCol(_, _, _, _)
ClCol(x, y, k, i) ==
    IF i = 0 THEN 0
    ELSE LET lo == IF k + 1 - i >= 1 /\ k + 1 - i <= 8
                   THEN BClmul(x[i], y[k + 1 - i]) % 256 ELSE 0
             hi == IF k - i >= 1 /\ k - i <= 8
                   THEN BClmul(x[i], y[k - i]) \div 256 ELSE 0
         IN  BXor(BXor(lo, hi), ClCol(x, y, k, i - 1))

\* The 64 x 64 -> 128 bit carryless product PCLMULQDQ computes.
clmul(x, y) == Bytes([k \in 1..16 |-> ClCol(x, y, k, 8)])

\* _mm_clmulepi64_si128(a, b, imm8): bit 0 of imm8 picks the half of a,
\* bit 4 the half of b.
clmulepi64_si128(a, b, imm8) ==
    clmul(IF imm8 % 2 = 1 THEN Hi64(a) ELSE Lo64(a),
          IF (imm8 \div 16) % 2 = 1 THEN Hi64(b) ELSE Lo64(b))

----------------------------------------------------------------------------
(* Modular arithmetic utilities (mod 2^64 - 8).                            *)
(*                                                                         *)
(* A value that a C function uses more than once is a parameter of a       *)
(* helper operator here, so that each expression is written once.          *)

\* (uint64_t)-8 and (uint64_t)-16.
NEG8  == <<248, 255, 255, 255, 255, 255, 255, 255>>
NEG16 == <<240, 255, 255, 255, 255, 255, 255, 255>>

\* overflow ? sum + 8 : sum
add_mod_fast_fix(r) == IF r.overflow THEN Add(r.sum, U64(8)) ELSE r.sum

add_mod_fast(x, y) == add_mod_fast_fix(uaddll_overflow(x, y))

\* sum = (sum >= (uint64_t)-8) ? sum + 8 : sum
reduce_once(sum) == IF ~Lt(sum, NEG8) THEN Add(sum, U64(8)) ELSE sum

add_mod_slow_slow_path(sum, fixup) ==
    reduce_once(Add(reduce_once(sum), fixup))

\* The body of add_mod_slow after the overflowing add.
add_mod_slow_tail(sum, fixup) ==
    IF Lt(sum, NEG16) THEN Add(sum, fixup)
    ELSE add_mod_slow_slow_path(sum, fixup)

add_mod_slow_fixup(r) ==
    add_mod_slow_tail(r.sum, IF r.overflow THEN U64(8) ELSE U64(0))

\* A faulty add_mod_slow: the fast add, which never reduces its result.
add_mod_slow_unreduced(x, y) == add_mod_fast(x, y)

add_mod_slow(x, y) == add_mod_slow_fixup(uaddll_overflow(x, y))

\* A faulty fold: the high half is added without the factor 2^64 = 8.
mul_mod_fast_fold_unscaled(product) ==
    add_mod_fast(Lo64(product), Hi64(product))

\* add_mod_fast((uint64_t)product, 8 * (uint64_t)(product >> 64))
mul_mod_fast_fold(product) ==
    add_mod_fast(Lo64(product), Mul(U64(8), Hi64(product)))

mul_mod_fast(m, x) == mul_mod_fast_fold(MulWide(m, x))

horner_double_update(acc, m0, m1, x, y) ==
    add_mod_slow(mul_mod_fast(m0, add_mod_fast(acc, x)), mul_mod_fast(m1, y))

----------------------------------------------------------------------------
(* Memory.  The input is a sequence of n_bytes bytes; offset o of the      *)
(* buffer is data[o + 1].  Every function that reads memory returns its    *)
(* value together with its footprint: rd, the input offsets it read, and   *)
(* nz, the indexes of the noise table params->ph it read.                  *)

UMASH_PH_PARAM_COUNT == 32
UMASH_PH_TOEPLITZ_SHIFT == 4
BLOCK_SIZE == 8 * UMASH_PH_PARAM_COUNT

\* One byte of the input.  A read outside the buffer is undefined in C; the
\* byte it yields is arbitrary, and the offset lands in the footprint.
Peek(data, o) == IF o >= 0 /\ o < Len(data) THEN data[o + 1] ELSE 170

\* memcpy(&dst, (const char *)data + off, len)
memcpy(data, off, len) ==
    [val |-> Bytes([i \in 1..len |-> Peek(data, off + i - 1)]),
     rd  |-> off..(off + len - 1)]

\* params[i], where params == &ph[shift]
param(ph, shift, i) ==
    IF shift + i < Len(ph) THEN ph[shift + i + 1] ELSE Fill(170, 8)

----------------------------------------------------------------------------
(* PH block compression.  The loop state st is [acc, rd, nz, i].           *)

\* The body of both block loops: x is the 16 bytes at block, k the two
\* noise words params[i], params[i + 1];
\* x ^= k; acc ^= _mm_clmulepi64_si128(x, x, 1).
ph_pair(st, x, k, shift, i) ==
    [acc |-> Xor(st.acc, clmulepi64_si128(Xor(x.val, k), Xor(x.val, k), 1)),
     rd  |-> st.rd \cup x.rd,
     nz  |-> st.nz \cup {shift + i, shift + i + 1},
     i   |-> i + 2]

ph_init(seed) ==
    [acc |-> cvtsi64_si128(seed), rd |-> {}, nz |-> {}, i |-> 0]

\* struct umash_ph ret: memcpy(&ret, &acc, sizeof(ret))
ph_ret(st) ==
    [bits |-> <<Lo64(st.acc), Hi64(st.acc)>>, rd |-> st.rd, nz |-> st.nz]

RECURSIVE ph_one_block_loop(_, _, _, _, _)
ph_one_block_loop(ph, shift, data, block, st) ==
    IF ~(st.i < UMASH_PH_PARAM_COUNT) THEN st
    ELSE ph_one_block_loop(ph, shift, data, block + 16,
            ph_pair(st, memcpy(data, block, 16),
                    param(ph, shift, st.i) \o param(ph, shift, st.i + 1),
                    shift, st.i))

ph_one_block(ph, shift, seed, data, block) ==
    ph_ret(ph_one_block_loop(ph, shift, data, block, ph_init(seed)))

RECURSIVE ph_last_block_loop(_, _, _, _, _, _)
ph_last_block_loop(ph, shift, data, block, end_full_pairs, st) ==
    IF ~(st.i < end_full_pairs) THEN st
    ELSE ph_last_block_loop(ph, shift, data, block + 16, end_full_pairs,
            ph_pair(st, memcpy(data, block, 16),
                    param(ph, shift, st.i) \o param(ph, shift, st.i + 1),
                    shift, st.i))

\* Compress the final (potentially partial) pair: x and y are the 8 bytes
\* at last_ptr and at last_ptr + 8, kx and ky are params[i], params[i + 1].
ph_last_block_final(st, x, y, kx, ky, shift) ==
    [acc |-> Xor(st.acc,
                 clmulepi64_si128(cvtsi64_si128(Xor(x.val, kx)),
                                  cvtsi64_si128(Xor(y.val, ky)), 0)),
     rd  |-> st.rd \cup x.rd \cup y.rd,
     nz  |-> st.nz \cup {shift + st.i, shift + st.i + 1},
     i   |-> st.i]

ph_last_block_tail(ph, shift, data, last_ptr, st) ==
    ph_last_block_final(st, memcpy(data, last_ptr, 8),
        memcpy(data, last_ptr + 8, 8),
        param(ph, shift, st.i), param(ph, shift, st.i + 1), shift)

\* size_t remaining = 1 + ((n_bytes - 1) % sizeof(__m128i))
ph_remaining(n_bytes) == 1 + ((n_bytes - 1) % 16)

\* size_t end_full_pairs = (n_bytes - remaining) / sizeof(uint64_t)
ph_end_full_pairs(n_bytes) == (n_bytes - ph_remaining(n_bytes)) \div 8

\* A faulty last_ptr: it steps back by one word instead of one vector.
ph_last_ptr_word(block, n_bytes) == block + n_bytes - 8

\* last_ptr = (const char *)block + n_bytes - sizeof(__m128i)
ph_last_ptr(block, n_bytes) == block + n_bytes - 16

ph_last_block(ph, shift, seed, data, block, n_bytes) ==
    ph_ret(ph_last_block_tail(ph, shift, data, ph_last_ptr(block, n_bytes),
        ph_last_block_loop(ph, shift, data, block,
            ph_end_full_pairs(n_bytes), ph_init(seed))))

----------------------------------------------------------------------------
(* Short UMASH (<= 8 bytes).                                               *)

\* const char zeros[2] = { 0 }: a local buffer, not part of the input.
zeros == [val |-> <<0, 0>>, rd |-> {}]

\* memcpy(&dst, zeros, len)
memcpy_zeros(len) == [val |-> SubSeq(zeros.val, 1, len), rd |-> zeros.rd]

\* lo = byte; hi = word: an integer conversion to uint32_t.
to_u32(x) == [val |-> x.val \o Fill(0, 4 - Len(x.val)), rd |-> x.rd]

\* return ((uint64_t)hi << 32) | (lo + hi), the sum in uint32_t.
vec_to_u64_mix(lo, hi) ==
    [val |-> Add(lo.val, hi.val) \o hi.val, rd |-> lo.rd \cup hi.rd]

vec_to_u64(data, n_bytes) ==
    IF n_bytes >= 4
    THEN \* the first 4 bytes in lo, the last 4 in hi
         vec_to_u64_mix(memcpy(data, 0, 4), memcpy(data, n_bytes - 4, 4))
    ELSE \* 0 <= n_bytes < 4: decode the size in binary
         vec_to_u64_mix(
            to_u32(IF (n_bytes % 2) # 0 THEN memcpy(data, 0, 1)
                   ELSE memcpy_zeros(1)),
            to_u32(IF ((n_bytes \div 2) % 2) # 0
                   THEN memcpy(data, n_bytes - 2, 2)
                   ELSE memcpy_zeros(2)))

\* 0xbf58476d1ce4e5b9 and 0x94d049bb133111eb
MIX1 == <<185, 229, 228, 28, 109, 71, 88, 191>>
MIX2 == <<235, 17, 49, 19, 187, 73, 208, 148>>

\* h ^= h >> k
xorshift(h, k) == Xor(h, Shr(h, k))

\* h = (h ^ seed) ^ (h >> 27)
xorshift_seed(h, seed) == Xor(Xor(h, seed), Shr(h, 27))

\* A faulty injection: the noise word is xored onto the seed.
umash_short_seed_xor(seed, noise) == Xor(seed, noise)

\* seed += params[n_bytes]
umash_short_seed(seed, noise) == Add(seed, noise)

\* The mixer of umash_short, from h = vec_to_u64(data, n_bytes) on.
umash_short_mix(seed, h) ==
    xorshift(Mul(xorshift_seed(Mul(xorshift(h, 30), MIX1), seed), MIX2), 31)

umash_short_ret(seed, v, nzi) ==
    [val  |-> umash_short_mix(seed, v.val),
     rd   |-> v.rd,
     nz   |-> {nzi},
     accs |-> <<>>]

umash_short(ph, shift, seed, data, n_bytes) ==
    umash_short_ret(umash_short_seed(seed, param(ph, shift, n_bytes)),
                    vec_to_u64(data, n_bytes), shift + n_bytes)

\* A faulty finalize: it goes on with the last step of umash_short.
finalize_avalanche(x) == xorshift(Mul(xorshift(x, 27), MIX2), 31)

finalize(x) == Mul(xorshift(x, 27), MIX2)

----------------------------------------------------------------------------
(* Medium and long UMASH.  accs lists the polynomial accumulator before    *)
(* the first Horner update and after every update.                         *)

\* acc.vec ^= _mm_clmulepi64_si128(x ^ ph[0], y ^ ph[1], 0)
umash_medium_pair(acc, x, y, kx, ky, shift) ==
    [acc |-> Xor(acc,
                 clmulepi64_si128(cvtsi64_si128(Xor(x.val, kx)),
                                  cvtsi64_si128(Xor(y.val, ky)), 0)),
     rd  |-> x.rd \cup y.rd,
     nz  |-> {shift, shift + 1}]

\* return finalize(h), h the result of the last Horner update
hash_ret(h, st, accs) ==
    [val |-> finalize(h), rd |-> st.rd, nz |-> st.nz, accs |-> Append(accs, h)]

umash_medium_ret(multipliers, st) ==
    hash_ret(horner_double_update(U64(0), multipliers[1], multipliers[2],
                                  Lo64(st.acc), Hi64(st.acc)),
             st, <<U64(0)>>)

umash_medium(multipliers, ph, shift, seed, data, n_bytes) ==
    umash_medium_ret(multipliers,
        umash_medium_pair(cvtsi64_si128(Xor(seed, U64(n_bytes))),
            memcpy(data, 0, 8), memcpy(data, n_bytes - 8, 8),
            param(ph, shift, 0), param(ph, shift, 1), shift))

\* The state of umash_long: data (an offset into the input), n_bytes, acc,
\* and the footprint so far.
umash_long_init(n_bytes) ==
    [data |-> 0, n_bytes |-> n_bytes, acc |-> U64(0),
     rd |-> {}, nz |-> {}, accs |-> <<U64(0)>>]

\* data += BLOCK_SIZE; n_bytes -= BLOCK_SIZE; acc = the Horner update
umash_long_next(st, compressed, acc) ==
    [data    |-> st.data + BLOCK_SIZE,
     n_bytes |-> st.n_bytes - BLOCK_SIZE,
     acc     |-> acc,
     rd      |-> st.rd \cup compressed.rd,
     nz      |-> st.nz \cup compressed.nz,
     accs    |-> Append(st.accs, acc)]

\* acc = horner_double_update(acc, multipliers[0], multipliers[1],
\*                            compressed.bits[0], compressed.bits[1])
umash_long_update(multipliers, st, compressed) ==
    umash_long_next(st, compressed,
        horner_double_update(st.acc, multipliers[1], multipliers[2],
                             compressed.bits[1], compressed.bits[2]))

RECURSIVE umash_long_loop(_, _, _, _, _, _)
umash_long_loop(multipliers, ph, shift, seed, data, st) ==
    IF ~(st.n_bytes > BLOCK_SIZE) THEN st
    ELSE umash_long_loop(multipliers, ph, shift, seed, data,
            umash_long_update(multipliers, st,
                ph_one_block(ph, shift, seed, data, st.data)))

\* Do the final block: seed ^= (uint8_t)n_bytes, ph_last_block, one update.
umash_long_final(multipliers, ph, shift, seed, data, st) ==
    umash_long_update(multipliers, st,
        ph_last_block(ph, shift, Xor(seed, U64(st.n_bytes % 256)), data,
                      st.data, st.n_bytes))

\* return finalize(acc)
umash_long_ret(st) ==
    [val |-> finalize(st.acc), rd |-> st.rd, nz |-> st.nz, accs |-> st.accs]

umash_long(multipliers, ph, shift, seed, data, n_bytes) ==
    umash_long_ret(
        umash_long_final(multipliers, ph, shift, seed, data,
            umash_long_loop(multipliers, ph, shift, seed, data,
                umash_long_init(n_bytes))))

----------------------------------------------------------------------------
(* The public entry points.  params is [poly |-> <<pair0, pair1>>,          *)
(* ph |-> <<36 words>>]; poly[i + 1] is the C poly[i], and pair[1], pair[2] *)
(* are the C pair[0] (pre-squared) and pair[1] (base multiplier).          *)

\* The path a length takes through the two nested tests of umash_full.
umash_full_tier(n_bytes) ==
    IF n_bytes <= 16
    THEN IF n_bytes <= 8 THEN "short" ELSE "medium"
    ELSE "long"

\* const size_t shift = (which == 0) ? 0 : UMASH_PH_TOEPLITZ_SHIFT
umash_full_shift(which) == IF which = 0 THEN 0 ELSE UMASH_PH_TOEPLITZ_SHIFT

\* which = (which == 0) ? 0 : 1
umash_full_which(which) == IF which = 0 THEN 0 ELSE 1

\* The digest with its footprint, and the path that computed it.
with_tier(r, tier) ==
    [val |-> r.val, rd |-> r.rd, nz |-> r.nz, accs |-> r.accs, tier |-> tier]

umash_full(params, seed, which, data, n_bytes) ==
    with_tier(
        CASE umash_full_tier(n_bytes) = "short" ->
                umash_short(params.ph, umash_full_shift(which), seed, data,
                            n_bytes)
          [] umash_full_tier(n_bytes) = "medium" ->
                umash_medium(params.poly[umash_full_which(which) + 1],
                             params.ph, umash_full_shift(which), seed, data,
                             n_bytes)
          [] umash_full_tier(n_bytes) = "long" ->
                umash_long(params.poly[umash_full_which(which) + 1],
                           params.ph, umash_full_shift(which), seed, data,
                           n_bytes),
        umash_full_tier(n_bytes))

\* A faulty tier selection: 8 bytes are sent to the medium path.
umash_fprint_tier_lt(n_bytes) ==
    IF n_bytes <= 16
    THEN IF n_bytes < 8 THEN "short" ELSE "medium"
    ELSE "long"

\* The path a length takes through the two nested tests of umash_fprint.
umash_fprint_tier(n_bytes) ==
    IF n_bytes <= 16
    THEN IF n_bytes <= 8 THEN "short" ELSE "medium"
    ELSE "long"

\* A faulty loop header: shift stays 0 in the second iteration.
umash_fprint_shift_zero(i) == 0

\* The shift in iteration i of
\* for (size_t i = 0, shift = 0; i < 2; i++, shift = toeplitz_shift)
umash_fprint_shift(i) == IF i = 0 THEN 0 ELSE UMASH_PH_TOEPLITZ_SHIFT

\* ret.hash[i], by the loop of the path taken.
umash_fprint_half(params, seed, data, n_bytes, i) ==
    CASE umash_fprint_tier(n_bytes) = "short" ->
            umash_short(params.ph, umash_fprint_shift(i), seed, data, n_bytes)
      [] umash_fprint_tier(n_bytes) = "medium" ->
            umash_medium(params.poly[i + 1], params.ph, umash_fprint_shift(i),
                         seed, data, n_bytes)
      [] umash_fprint_tier(n_bytes) = "long" ->
            umash_long(params.poly[i + 1], params.ph, umash_fprint_shift(i),
                       seed, data, n_bytes)

\* struct umash_fp ret, with the footprint of each half.
umash_fprint_ret(h0, h1, tier) ==
    [hash |-> <<h0.val, h1.val>>,
     rd   |-> h0.rd \cup h1.rd,
     nz   |-> <<h0.nz, h1.nz>>,
     accs |-> <<h0.accs, h1.accs>>,
     tier |-> tier]

umash_fprint(params, seed, data, n_bytes) ==
    umash_fprint_ret(umash_fprint_half(params, seed, data, n_bytes, 0),
                     umash_fprint_half(params, seed, data, n_bytes, 1),
                     umash_fprint_tier(n_bytes))

----------------------------------------------------------------------------
(* Parameter preparation.                                                  *)

\* static const uint64_t modulo = (1UL << 61) - 1
modulo == <<255, 255, 255, 255, 255, 255, 255, 31>>

\* f & ((1UL << 61) - 1)
mask61(f) == [f EXCEPT ![8] = f[8] % 32]

\* x % modulo on uint64_t: 2^61 = 1 (mod 2^61 - 1), so the top 3 bits fold
\* onto the low 61, and one conditional subtraction finishes.
mod_modulo_fold(r) == IF Lt(r, modulo) THEN r ELSE mask61(Add(r, U64(1)))

mod_modulo(x) == mod_modulo_fold(Add(mask61(x), Shr(x, 61)))

\* A faulty value_is_repeated: it looks at the previous entry only.
value_is_repeated_prev(values, n, needle) ==
    n > 0 /\ values[n] = needle

value_is_repeated(values, n, needle) ==
    \E i \in 1..n : values[i] = needle

\* ARRAY_SIZE(buf), ARRAY_SIZE(params->poly), ARRAY_SIZE(params->ph)
ARRAY_SIZE_buf  == 2
ARRAY_SIZE_poly == 2
ARRAY_SIZE_ph   == UMASH_PH_PARAM_COUNT + UMASH_PH_TOEPLITZ_SHIFT

\* GET_RANDOM's test: no pool word is left.
pool_exhausted(buf_idx) == buf_idx >= ARRAY_SIZE_buf

\* A faulty exit test: f == modulo is let through.
multiplier_ok_nonzero(f) == f # U64(0)

\* The exit test of the rejection sampling loop, on the masked f.
multiplier_ok(f) == f # U64(0) /\ Lt(f, modulo)

VARIABLES
    op,      \* the operation that was called
    arg,     \* its arguments
    pc,      \* "call", a position inside umash_params_prepare, or "done"
    params,  \* struct umash_params (the key), mutated only by prepare
    loc,     \* locals of umash_params_prepare: buf, buf_idx, i, f
    ret      \* the value returned once pc = "done"

vars == <<op, arg, pc, params, loc, ret>>

NoLoc == [buf |-> <<>>, buf_idx |-> 0, i |-> 0, f |-> U64(0)]

\* uint64_t buf[] = { poly[0][0], poly[1][0] }; buf_idx = 0; then the first
\* iteration of the multiplier loop loads f = poly[0][1].
PrepareEnter ==
    /\ op = "umash_params_prepare" /\ pc = "call"
    /\ loc' = [buf |-> <<params.poly[1][1], params.poly[2][1]>>,
               buf_idx |-> 0, i |-> 0, f |-> params.poly[1][2]]
    /\ pc' = "poly"
    /\ UNCHANGED <<op, arg, params, ret>>

\* The masked f passes: store the pair and move to the next pair, or to the
\* noise loop after the last one.
PolyAccept ==
    /\ op = "umash_params_prepare" /\ pc = "poly"
    /\ LET f == mask61(loc.f)
       IN  /\ multiplier_ok(f)
           /\ params' = [params EXCEPT !.poly[loc.i + 1] =
                            <<mod_modulo(mul_mod_fast(f, f)), f>>]
           /\ IF loc.i + 1 < ARRAY_SIZE_poly
              THEN /\ loc' = [loc EXCEPT !.i = loc.i + 1,
                                         !.f = params.poly[loc.i + 2][2]]
                   /\ pc' = "poly"
              ELSE /\ loc' = [loc EXCEPT !.i = 0, !.f = f]
                   /\ pc' = "ph"
    /\ UNCHANGED <<op, arg, ret>>

\* The masked f is rejected: GET_RANDOM(f).
PolyDraw ==
    /\ op = "umash_params_prepare" /\ pc = "poly"
    /\ ~multiplier_ok(mask61(loc.f))
    /\ IF pool_exhausted(loc.buf_idx)
       THEN /\ ret' = FALSE /\ pc' = "done"
            /\ loc' = [loc EXCEPT !.f = mask61(loc.f)]
       ELSE /\ loc' = [loc EXCEPT !.f = loc.buf[loc.buf_idx + 1],
                                  !.buf_idx = loc.buf_idx + 1]
            /\ UNCHANGED <<ret, pc>>
    /\ UNCHANGED <<op, arg, params>>

\* ph[i] repeats no earlier entry: next i.
NoiseAccept ==
    /\ op = "umash_params_prepare" /\ pc = "ph"
    /\ loc.i < ARRAY_SIZE_ph
    /\ ~value_is_repeated(params.ph, loc.i, params.ph[loc.i + 1])
    /\ loc' = [loc EXCEPT !.i = loc.i + 1]
    /\ UNCHANGED <<op, arg, pc, params, ret>>

\* ph[i] repeats an earlier entry: GET_RANDOM(params->ph[i]).
NoiseDraw ==
    /\ op = "umash_params_prepare" /\ pc = "ph"
    /\ loc.i < ARRAY_SIZE_ph
    /\ value_is_repeated(params.ph, loc.i, params.ph[loc.i + 1])
    /\ IF pool_exhausted(loc.buf_idx)
       THEN /\ ret' = FALSE /\ pc' = "done"
            /\ UNCHANGED <<params, loc>>
       ELSE /\ params' = [params EXCEPT !.ph[loc.i + 1] =
                             loc.buf[loc.buf_idx + 1]]
            /\ loc' = [loc EXCEPT !.buf_idx = loc.buf_idx + 1]
            /\ UNCHANGED <<ret, pc>>
    /\ UNCHANGED <<op, arg>>

\* Both loops are over: return true.
PrepareReturn ==
    /\ op = "umash_params_prepare" /\ pc = "ph"
    /\ ~(loc.i < ARRAY_SIZE_ph)
    /\ ret' = TRUE /\ pc' = "done"
    /\ UNCHANGED <<op, arg, params, loc>>

----------------------------------------------------------------------------
(* Raw keys handed to umash_params_prepare.                                *)

\* A table of 36 pairwise distinct noise words (distinct first bytes).
NoiseWord(i) ==
    <<i + 1, (7 * i + 3) % 256, (29 * i + 101) % 256, (i * i + 17) % 256,
      (53 * i + 200) % 256, (11 * i + 7) % 256, (97 * i + 64) % 256,
      (3 * i + 129) % 256>>

NoiseBase == Bytes([i \in 1..ARRAY_SIZE_ph |-> NoiseWord(i - 1)])

\* Raw base multipliers poly[i][1]: valid, valid only after masking,
\* zero after masking, and 2^61 - 1 after masking.
RawMultipliers ==
    { U64(1),
      <<5, 0, 0, 0, 0, 0, 0, 32>>,
      <<0, 0, 0, 0, 0, 0, 0, 224>>,
      Fill(255, 8) }

\* Raw pre-squared slots poly[i][0], the pool: a usable word, two words
\* that are rejected as multipliers, and a word that repeats a noise entry.
RawPool == { U64(3), U64(0), modulo, NoiseBase[1] }

\* Places where the raw noise table may repeat an earlier entry: <<k, j>>
\* makes ph[k] a copy of ph[j] (C indexes).
DupSlots == { <<1, 0>>, <<2, 0>>, <<20, 7>>, <<35, 34>> }

\* How many of them one raw table may use.
MaxDups == 2

NoiseTable(D) ==
    Bytes([k \in 1..ARRAY_SIZE_ph |->
        IF \E d \in D : d[1] = k - 1
        THEN NoiseBase[(CHOOSE d \in D : d[1] = k - 1)[2] + 1]
        ELSE NoiseBase[k]])

RawParams ==
    { [poly |-> <<<<p0, f0>>, <<p1, f1>>>>, ph |-> NoiseTable(D)] :
        p0 \in RawPool, f0 \in RawMultipliers,
        p1 \in RawPool, f1 \in RawMultipliers,
        D \in { S \in SUBSET DupSlots : Cardinality(S) <= MaxDups } }

InitPrepare ==
    /\ op = "umash_params_prepare"
    /\ params \in RawParams
    /\ arg = params
    /\ pc = "call"
    /\ loc = NoLoc
    /\ ret = "none"

NextPrepare ==
    \/ PrepareEnter
    \/ PolyAccept
    \/ PolyDraw
    \/ NoiseAccept
    \/ NoiseDraw
    \/ PrepareReturn

SpecPrepare == InitPrepare /\ [][NextPrepare]_vars

----------------------------------------------------------------------------
(* Calls of the pure functions: Init draws the function and its inputs,    *)
(* the action applies it.                                                  *)

\* 64-bit operands around every threshold the arithmetic tests.
EdgeU64 ==
    { U64(0), U64(1), U64(8),
      modulo,                                   \* 2^61 - 1
      <<0, 0, 0, 0, 0, 0, 0, 32>>,              \* 2^61
      <<0, 0, 0, 0, 0, 0, 0, 128>>,             \* 2^63
      <<239, 255, 255, 255, 255, 255, 255, 255>>, \* 2^64 - 17
      NEG16,                                    \* 2^64 - 16
      <<247, 255, 255, 255, 255, 255, 255, 255>>, \* 2^64 - 9
      NEG8,                                     \* 2^64 - 8
      <<249, 255, 255, 255, 255, 255, 255, 255>>, \* 2^64 - 7
      Fill(255, 8),                             \* 2^64 - 1
      MIX1, MIX2 }

\* Prepared keys: what PolyAccept stores for the base multipliers f0 and f1,
\* over a noise table without repeats.
PreparedKey(f0, f1) ==
    [poly |-> <<<<mod_modulo(mul_mod_fast(f0, f0)), f0>>,
                <<mod_modulo(mul_mod_fast(f1, f1)), f1>>>>,
     ph   |-> NoiseBase]

HashKeys ==
    { PreparedKey(U64(1), <<254, 255, 255, 255, 255, 255, 255, 31>>),
      PreparedKey(<<\h15, \hcd, \h5b, \h07, \h39, \h30, \h00, \h10>>,
                  <<\hb1, \h68, \hde, \h3a, \h78, \h56, \h34, \h02>>) }

Seeds == { U64(0), Fill(255, 8) }

\* Input lengths: every length up to MaxLen, and those from one byte short
\* of a whole number of blocks to MaxTail bytes past it, for up to MaxBlocks
\* whole blocks.
MaxLen == 34
MaxBlocks == 1
MaxTail == 16

Lengths ==
    (0..MaxLen) \cup
    { b * BLOCK_SIZE + d : b \in 1..MaxBlocks, d \in (-1)..MaxTail }

\* Input bytes: a ramp, or the bytes of the noise words the first slice
\* xors onto each block (so that the PH lanes cancel).
DataKinds == { "ramp", "noise" }

Data(kind, n) ==
    Bytes([o \in 1..n |->
        IF kind = "ramp" THEN (7 * o + 1) % 256
        ELSE NoiseBase[(((o - 1) % BLOCK_SIZE) \div 8) + 1][((o - 1) % 8) + 1]])

InitArith ==
    /\ op \in { "add_mod_fast", "add_mod_slow", "mul_mod_fast" }
    /\ arg \in [x : EdgeU64, y : EdgeU64]
    /\ params = "none"

InitFinalize ==
    /\ op = "finalize"
    /\ arg \in [x : EdgeU64]
    /\ params = "none"

InitHash ==
    /\ op \in { "umash_full", "umash_fprint" }
    /\ params \in HashKeys
    /\ \E seed \in Seeds, n \in Lengths, kind \in DataKinds :
         \E which \in IF op = "umash_full" THEN {0, 1} ELSE {0} :
            arg = [seed |-> seed, which |-> which, data |-> Data(kind, n),
                   n_bytes |-> n]

Init ==
    /\ InitArith \/ InitFinalize \/ InitHash
    /\ pc = "call"
    /\ loc = NoLoc
    /\ ret = "none"

Return(v) ==
    /\ pc = "call"
    /\ ret' = v
    /\ pc' = "done"
    /\ UNCHANGED <<op, arg, params, loc>>

CallAddModFast == op = "add_mod_fast" /\ Return(add_mod_fast(arg.x, arg.y))

CallAddModSlow == op = "add_mod_slow" /\ Return(add_mod_slow(arg.x, arg.y))

CallMulModFast == op = "mul_mod_fast" /\ Return(mul_mod_fast(arg.x, arg.y))

CallFinalize == op = "finalize" /\ Return(finalize(arg.x))

CallFull ==
    /\ op = "umash_full"
    /\ Return(umash_full(params, arg.seed, arg.which, arg.data, arg.n_bytes))

CallFprint ==
    /\ op = "umash_fprint"
    /\ Return(umash_fprint(params, arg.seed, arg.data, arg.n_bytes))

Next ==
    \/ CallAddModFast
    \/ CallAddModSlow
    \/ CallMulModFast
    \/ CallFinalize
    \/ CallFull
    \/ CallFprint

Spec == Init /\ [][Next]_vars

----------------------------------------------------------------------------
(* Exact arithmetic on numbers of any length, for stating the properties.  *)

\* w extended with zero bytes to len bytes.
Pad(w, len) == w \o Fill(0, len - Len(w))

\* w without its leading zero bytes, but never shorter than 8 bytes.
RECURSIVE Trim(_)
Trim(w) ==
    IF Len(w) > 8 /\ w[Len(w)] = 0 THEN Trim(SubSeq(w, 1, Len(w) - 1)) ELSE w

\* x + y, exactly: one byte longer than the longer operand.
ExactSum(x, y) ==
    Add(Pad(x, 1 + (IF Len(x) > Len(y) THEN Len(x) ELSE Len(y))),
        Pad(y, 1 + (IF Len(x) > Len(y) THEN Len(x) ELSE Len(y))))

\* w mod (2^64 - 8), as 8 bytes: 2^64 = 8 folds the high part onto the low.
RECURSIVE Residue(_)
Residue(w) ==
    IF Len(w) <= 8
    THEN IF Lt(w, <<248, 255, 255, 255, 255, 255, 255, 255>>) THEN w
         ELSE Add(w, U64(8))
    ELSE Residue(Trim(ExactSum(SubSeq(w, 1, 8),
                               MulWide(SubSeq(w, 9, Len(w)), <<8>>))))

\* 2^61, and 2^61 - 1.
TwoTo61 == <<0, 0, 0, 0, 0, 0, 0, 32>>
Mersenne61 == <<255, 255, 255, 255, 255, 255, 255, 31>>

\* The low 61 bits of w, at the width of w.
Low61(w) ==
    Bytes([i \in 1..Len(w) |->
        IF i < 8 THEN w[i] ELSE IF i = 8 THEN w[8] % 32 ELSE 0])

\* w mod (2^61 - 1), as 8 bytes: 2^61 = 1 folds the high part onto the low.
RECURSIVE Rem61(_)
Rem61(w) ==
    IF Shr(w, 61) = Fill(0, Len(w))
    THEN IF Lo64(w) = Mersenne61 THEN U64(0) ELSE Lo64(w)
    ELSE Rem61(Add(Low61(w), Shr(w, 61)))

----------------------------------------------------------------------------
(* C8.  add_mod_fast.                                                      *)

\* C8: for every pair of 64-bit values x and y, add_mod_fast(x, y) is
\* congruent to x + y modulo 2^64 - 8, and when the addition carried, adding
\* 8 to the wrapped sum does not overflow 64 bits.
C8_FastAddCongruent ==
    (op = "add_mod_fast" /\ pc = "done") =>
        /\ Residue(ret) = Residue(ExactSum(arg.x, arg.y))
        /\ uaddll_overflow(arg.x, arg.y).overflow =>
              Lt(uaddll_overflow(arg.x, arg.y).sum, NEG8)

----------------------------------------------------------------------------
(* C9.  mul_mod_fast.                                                      *)

\* C9 as amended: mul_mod_fast(m, x) is congruent to m * x modulo 2^64 - 8
\* exactly when the high half of the 128-bit product is below 2^61, that is
\* when m * x < 2^125, so that 8 * high is exact in 64 bits.
C9_FastMulCongruentBelow2p125 ==
    (op = "mul_mod_fast" /\ pc = "done") =>
        ((Residue(ret) = Residue(MulWide(arg.x, arg.y)))
            <=> Lt(Hi64(MulWide(arg.x, arg.y)), TwoTo61))

\* A product with a nonzero high half below 2^61 whose fold carried.
C9_Witness ==
    /\ op = "mul_mod_fast" /\ pc = "done"
    /\ Hi64(MulWide(arg.x, arg.y)) # U64(0)
    /\ Lt(Hi64(MulWide(arg.x, arg.y)), TwoTo61)
    /\ uaddll_overflow(Lo64(MulWide(arg.x, arg.y)),
                       Mul(U64(8), Hi64(MulWide(arg.x, arg.y)))).overflow
    /\ Residue(ret) = Residue(MulWide(arg.x, arg.y))

\* C9 as stated: for every pair of 64-bit values m and x, mul_mod_fast(m, x)
\* is congruent to m * x modulo 2^64 - 8.
C9_FastMulCongruent ==
    (op = "mul_mod_fast" /\ pc = "done") =>
        Residue(ret) = Residue(MulWide(arg.x, arg.y))

----------------------------------------------------------------------------
(* C5.  finalize.                                                          *)

\* 0x94D049BB133111EB
FinalMultiplier == <<235, 17, 49, 19, 187, 73, 208, 148>>

\* x ^ (x >> 27), times 0x94D049BB133111EB.
TwoStepFinal(x) == Mul(Xor(x, Shr(x, 27)), FinalMultiplier)

\* ... and then xored with itself shifted right by 31.
ThreeStepFinal(x) == Xor(TwoStepFinal(x), Shr(TwoStepFinal(x), 31))

\* The last element of a sequence.
Last(q) == q[Len(q)]

\* C5 as amended: for every 64-bit x the finaliser returns
\* (x XOR (x >> 27)) * 0x94D049BB133111EB mod 2^64, with no further step, and
\* the digest of the medium and long paths is the finaliser applied to the
\* accumulator of the last Horner update.
C5_FinaliserTwoSteps ==
    /\ (op = "finalize" /\ pc = "done") => ret = TwoStepFinal(arg.x)
    /\ (op = "umash_full" /\ pc = "done" /\ ret.tier # "short") =>
            ret.val = TwoStepFinal(Last(ret.accs))

\* finalize has returned for an x whose two forms differ.
C5_Witness ==
    /\ op = "finalize" /\ pc = "done"
    /\ ret = TwoStepFinal(arg.x)
    /\ ret # ThreeStepFinal(arg.x)

\* C5 as stated: for every 64-bit x the finaliser computes x ^= x >> 27;
\* x *= 0x94D049BB133111EB; x ^= x >> 31 and returns that x.
C5_FinaliserThreeSteps ==
    (op = "finalize" /\ pc = "done") => ret = ThreeStepFinal(arg.x)

----------------------------------------------------------------------------
(* C10.  The accumulator of the polynomial hash.                           *)

\* The accumulator starts at 0, is updated once per block of 256 bytes or
\* part of one, and stays below 2^64 - 8.
AccumulatorsReduced(accs, n_bytes) ==
    /\ Len(accs) = 2 + ((n_bytes - 1) \div 256)
    /\ accs[1] = U64(0)
    /\ \A i \in 1..Len(accs) : Lt(accs[i], NEG8)

\* C10: add_mod_slow returns a value strictly less than 2^64 - 8 for every
\* pair of 64-bit operands, and in the long path the polynomial accumulator
\* is strictly less than 2^64 - 8 before and after every Horner double
\* update, starting from 0.
C10_AccumulatorBelowModulus ==
    /\ (op = "add_mod_slow" /\ pc = "done") => Lt(ret, NEG8)
    /\ (op = "umash_full" /\ pc = "done" /\ ret.tier = "long") =>
            AccumulatorsReduced(ret.accs, arg.n_bytes)
    /\ (op = "umash_fprint" /\ pc = "done" /\ ret.tier = "long") =>
            /\ AccumulatorsReduced(ret.accs[1], arg.n_bytes)
            /\ AccumulatorsReduced(ret.accs[2], arg.n_bytes)

\* A long input of more than one block: two Horner updates were made.
C10_Witness ==
    /\ op = "umash_full" /\ pc = "done" /\ ret.tier = "long"
    /\ arg.n_bytes > BLOCK_SIZE
    /\ Len(ret.accs) = 3
    /\ ret.accs[2] # U64(0) /\ ret.accs[3] # ret.accs[2]

----------------------------------------------------------------------------
(* C7.  The short path.                                                    *)

\* The mixer of the short path, step by step, around an injected value.
ShortAvalanche(h) == Xor(h, Shr(h, 31))

ShortInject(h, injected) ==
    ShortAvalanche(Mul(Xor(Xor(h, injected), Shr(h, 27)), FinalMultiplier))

ShortMixer(h, injected) ==
    ShortInject(Mul(Xor(h, Shr(h, 30)),
                    <<185, 229, 228, 28, 109, 71, 88, 191>>),
                injected)

\* noise[n] of the slice a call selects: offset 0, or the Toeplitz offset
\* of 4 words.
SliceNoise(slice, n) == params.ph[(IF slice = 0 THEN 0 ELSE 4) + n + 1]

\* The short digest of the current input over a slice, with the seed and
\* the noise word combined by inject.
ShortDigest(slice, inject(_, _)) ==
    ShortMixer(vec_to_u64(arg.data, arg.n_bytes).val,
               inject(arg.seed, SliceNoise(slice, arg.n_bytes)))

\* The digests a finished call on at most 8 bytes must have returned.
ShortDigests(inject(_, _)) ==
    /\ (op = "umash_full" /\ pc = "done" /\ arg.n_bytes <= 8) =>
            ret.val = ShortDigest(arg.which, inject)
    /\ (op = "umash_fprint" /\ pc = "done" /\ arg.n_bytes <= 8) =>
            ret.hash = <<ShortDigest(0, inject), ShortDigest(1, inject)>>

\* C7 as amended: in the short path (n <= 8) the value injected in the
\* middle of the mixer is seed + noise[n] modulo 2^64: the digest is
\* h = vec_to_u64(data, n); h ^= h >> 30; h *= 0xBF58476D1CE4E5B9;
\* h = (h XOR (seed + noise[n])) XOR (h >> 27); h *= 0x94D049BB133111EB;
\* h ^= h >> 31, for every seed, noise word and n in 0..8.
C7_ShortInjectsSum == ShortDigests(Add)

\* A short call with a seed whose sum and xor with the noise word differ.
C7_Witness ==
    /\ op = "umash_full" /\ pc = "done" /\ ret.tier = "short"
    /\ arg.which = 1 /\ arg.n_bytes = 8
    /\ Add(arg.seed, SliceNoise(1, 8)) # Xor(arg.seed, SliceNoise(1, 8))
    /\ ret.val = ShortDigest(1, Add)

\* C7 as stated: the value injected in the middle of the mixer of the short
\* path is seed XOR noise[n].
C7_ShortInjectsXor == ShortDigests(Xor)

----------------------------------------------------------------------------
(* C3.  Reads of the input.                                                *)

\* C3: every byte umash_full reads from the input lies at an offset in
\* [0, n), for every length n and either value of which, in the short, the
\* medium and the long path.
C3_ReadsInBounds ==
    (op = "umash_full" /\ pc = "done") =>
        ret.rd \subseteq 0..(arg.n_bytes - 1)

\* A last block shorter than 16 bytes after a full block: its trailing read
\* starts in the block before it, and the call has read the whole input.
C3_Witness ==
    /\ op = "umash_full" /\ pc = "done"
    /\ arg.n_bytes > BLOCK_SIZE /\ arg.n_bytes - BLOCK_SIZE < 16
    /\ ret.rd = 0..(arg.n_bytes - 1)

----------------------------------------------------------------------------
(* C4.  umash_fprint against umash_full.                                   *)

\* The tier of the spec for a length.
TierOf(n) == IF n <= 8 THEN "short" ELSE IF n <= 16 THEN "medium" ELSE "long"

\* fp is the pair of h0 and h1, computed on the same path and slices.
PairOf(fp, h0, h1) ==
    /\ fp.hash = <<h0.val, h1.val>>
    /\ fp.nz = <<h0.nz, h1.nz>>
    /\ fp.accs = <<h0.accs, h1.accs>>
    /\ fp.tier = h0.tier /\ fp.tier = h1.tier

\* C4: umash_fprint returns the ordered pair (umash_full with which = 0,
\* umash_full with which = 1) on the same key, seed and input; hash[0]
\* reads the noise slice at offset 0 and hash[1] the slice at the Toeplitz
\* offset; both entry points select the same tier, which is the short one
\* for n <= 8, the medium one for 9 <= n <= 16 and the long one from 17 on.
C4_FprintIsPairOfFull ==
    /\ (op = "umash_fprint" /\ pc = "done") =>
        /\ PairOf(ret,
                  umash_full(params, arg.seed, 0, arg.data, arg.n_bytes),
                  umash_full(params, arg.seed, 1, arg.data, arg.n_bytes))
        /\ ret.nz[1] \subseteq 0..31
        /\ ret.nz[2] \subseteq 4..35
    /\ (op \in {"umash_full", "umash_fprint"} /\ pc = "done") =>
        ret.tier = TierOf(arg.n_bytes)

\* A fingerprint of 17 bytes, the shortest long input, with two distinct
\* halves.
C4_Witness ==
    /\ op = "umash_fprint" /\ pc = "done"
    /\ arg.n_bytes = 17 /\ ret.tier = "long"
    /\ ret.hash[1] # ret.hash[2]

----------------------------------------------------------------------------
(* C6.  The noise read by the two halves of a fingerprint.                 *)

\* C6 as amended: the noise-table indexes read for hash[1] are those read
\* for hash[0] moved up by the Toeplitz offset of 4 words, and the two sets
\* are disjoint exactly when n <= 32; from 33 bytes on hash[0] reads more
\* than 4 consecutive indexes and the two sets overlap.
C6_NoiseSlicesShifted ==
    (op = "umash_fprint" /\ pc = "done") =>
        /\ ret.nz[2] = { i + 4 : i \in ret.nz[1] }
        /\ (ret.nz[1] \cap ret.nz[2] = {}) <=> (arg.n_bytes <= 32)

\* The longest input whose halves read disjoint indexes.
C6_Witness ==
    /\ op = "umash_fprint" /\ pc = "done"
    /\ arg.n_bytes = 32
    /\ ret.nz = <<0..3, 4..7>>

\* C6 as stated: for every input length the set of noise-table indexes read
\* for hash[0] and the set read for hash[1] have no index in common.
C6_NoiseSlicesDisjoint ==
    (op = "umash_fprint" /\ pc = "done") =>
        ret.nz[1] \cap ret.nz[2] = {}

----------------------------------------------------------------------------
(* C1.  The key after a successful umash_params_prepare.                   *)

\* poly[i] of key: the base multiplier is in (0, 2^61 - 1) and the other
\* slot holds its square modulo 2^61 - 1.
PairPrepared(pair) ==
    /\ pair[2] # U64(0)
    /\ Lt(pair[2], Mersenne61)
    /\ pair[1] = Rem61(MulWide(pair[2], pair[2]))

\* C1: whenever umash_params_prepare returns true, each base multiplier
\* poly[i][1] is nonzero and strictly less than 2^61 - 1, poly[i][0] equals
\* poly[i][1] squared modulo 2^61 - 1, and the entries of the noise table ph
\* are pairwise distinct.
C1_PreparedKeyInvariants ==
    (op = "umash_params_prepare" /\ pc = "done" /\ ret = TRUE) =>
        /\ \A i \in 1..2 : PairPrepared(params.poly[i])
        /\ Len(params.ph) = 36
        /\ \A j \in 1..36 : \A k \in 1..36 :
                j # k => params.ph[j] # params.ph[k]

\* A success that used both pool words: one replaced a multiplier, the
\* other a noise entry.
C1_Witness ==
    /\ op = "umash_params_prepare" /\ pc = "done" /\ ret = TRUE
    /\ loc.buf_idx = 2
    /\ params.poly[1][2] = Low61(arg.poly[1][1])
    /\ \E k \in 1..36 : /\ params.ph[k] # arg.ph[k]
                        /\ params.ph[k] = arg.poly[2][1]

----------------------------------------------------------------------------
(* C2.  When umash_params_prepare fails.                                   *)

\* The routine stands at a value it must replace: a multiplier that is 0 or
\* 2^61 - 1 after masking, or a noise entry equal to an earlier one.
NeedsReplacement ==
    \/ /\ pc = "poly"
       /\ Low61(loc.f) \in { U64(0), Mersenne61 }
    \/ /\ pc = "ph" /\ loc.i < 36
       /\ \E j \in 1..loc.i : params.ph[j] = params.ph[loc.i + 1]

\* What one step of the routine does about it.
ReplacementStep ==
    (op = "umash_params_prepare" /\ pc \in { "poly", "ph" }) =>
        IF NeedsReplacement
        THEN IF loc.buf_idx = 2
             THEN pc' = "done" /\ ret' = FALSE
             ELSE /\ pc' = pc
                  /\ loc'.buf_idx = loc.buf_idx + 1
                  /\ arg.poly[loc.buf_idx + 1][1] =
                        IF pc = "poly" THEN loc'.f ELSE params'.ph[loc.i + 1]
        ELSE /\ loc'.buf_idx = loc.buf_idx
             /\ pc' = "done" => ret' = TRUE

\* C2: umash_params_prepare returns false exactly when a replacement word
\* is needed after both pool words (the raw poly[0][0] and poly[1][0]) have
\* been drawn; a replacement needed earlier draws the next pool word,
\* whichever loop asks and whether or not the word is then accepted, and
\* no other step draws a word or returns false.
C2_FailsOnlyWhenPoolExhausted == [][ReplacementStep]_vars

\* A failure in the noise loop: the first pool word went to a multiplier,
\* the second to ph[20], where it repeats an earlier entry.
C2_Witness ==
    /\ op = "umash_params_prepare" /\ pc = "done" /\ ret = FALSE
    /\ loc.buf_idx = 2 /\ loc.i = 20
    /\ params.poly[1][2] = Low61(arg.poly[1][1])
    /\ params.ph[21] = arg.poly[2][1]
    /\ \E j \in 1..20 : params.ph[j] = params.ph[21]

====
